---------------------------- MODULE Spec2Model ----------------------------
(***************************************************************************)
(* Model of the UPI/SMS parsing and categorization core of Arthos:         *)
(*   app/utils/regex_patterns.py   (pattern cascades, normalize_text)      *)
(*   app/services/upi_parser.py    (parse_message_line, parse_messages)    *)
(*   app/services/category_mapper.py (map_category, add_category_keywords) *)
(*   app/services/statement_cleaner.py (clean_text, normalize_amount)      *)
(*   app/services/summary_builder.py, app/routers/upi.py (the analysis)    *)
(*                                                                         *)
(* Text is a TLA+ string; a character is a string of length 1.  Python's   *)
(* None is the empty tuple <<>> and a present value v is <<v>>.  Amounts   *)
(* are counted in hundredths (the patterns capture at most two decimals),  *)
(* so 249.00 is 24900.                                                     *)
(***************************************************************************)
EXTENDS Integers, Sequences, FiniteSets, TLC

None == <<>>
Some(v) == <<v>>

(***************************************************************************)
(* Characters and Python's str helpers.                                    *)
(***************************************************************************)
UpperChars == "ABCDEFGHIJKLMNOPQRSTUVWXYZ"
LowerChars == "abcdefghijklmnopqrstuvwxyz"
DigitChars == "0123456789"

CharAt(s, i) == SubSeq(s, i, i)
CharsOf(s) == {CharAt(s, i) : i \in 1..Len(s)}

Upper == CharsOf(UpperChars)
Lower == CharsOf(LowerChars)
Digit == CharsOf(DigitChars)
\* str.isspace() / regex \s, restricted to the whitespace the inputs use
Space == {" ", "\t", "\n", "\r"}

LowerTable == [c \in Upper |->
                 CharAt(LowerChars, CHOOSE k \in 1..26 : CharAt(UpperChars, k) = c)]
UpperTable == [c \in Lower |->
                 CharAt(UpperChars, CHOOSE k \in 1..26 : CharAt(LowerChars, k) = c)]
DigitTable == [c \in Digit |->
                 (CHOOSE k \in 1..10 : CharAt(DigitChars, k) = c) - 1]

LowerChar(c) == IF c \in Upper THEN LowerTable[c] ELSE c
UpperChar(c) == IF c \in Lower THEN UpperTable[c] ELSE c

\* ''.join(parts[lo..hi]), by halves so that the evaluation stays shallow
RECURSIVE JoinRange(_, _, _)
JoinRange(parts, lo, hi) ==
    IF lo > hi THEN ""
    ELSE IF lo = hi THEN parts[lo]
    ELSE JoinRange(parts, lo, (lo + hi) \div 2) \o JoinRange(parts, (lo + hi) \div 2 + 1, hi)
Join(parts) == JoinRange(parts, 1, Len(parts))

\* str.lower()
lower(s) == Join([i \in 1..Len(s) |-> LowerChar(CharAt(s, i))])

\* str.capitalize()
capitalize(s) ==
    IF s = "" THEN "" ELSE UpperChar(CharAt(s, 1)) \o lower(SubSeq(s, 2, Len(s)))

\* str.lstrip(chars) / str.rstrip(chars) / str.strip()
RECURSIVE lstrip(_, _)
lstrip(s, chars) ==
    IF s # "" /\ CharAt(s, 1) \in chars THEN lstrip(SubSeq(s, 2, Len(s)), chars) ELSE s
RECURSIVE rstrip(_, _)
rstrip(s, chars) ==
    IF s # "" /\ CharAt(s, Len(s)) \in chars THEN rstrip(SubSeq(s, 1, Len(s) - 1), chars) ELSE s
strip(s) == rstrip(lstrip(s, Space), Space)

\* sub in s
Contains(s, sub) ==
    \E i \in 1..(Len(s) - Len(sub) + 1) : SubSeq(s, i, i + Len(sub) - 1) = sub

\* str.find(sub): the lowest index (from 1) where sub starts, 0 when absent
find(s, sub) ==
    IF Contains(s, sub)
    THEN CHOOSE i \in 1..(Len(s) - Len(sub) + 1) :
            /\ SubSeq(s, i, i + Len(sub) - 1) = sub
            /\ \A j \in 1..(i - 1) : SubSeq(s, j, j + Len(sub) - 1) # sub
    ELSE 0

\* str.replace(old, new), old non-empty
RECURSIVE replace(_, _, _)
replace(s, old, new) ==
    LET i == find(s, old) IN
    IF i = 0 THEN s
    ELSE SubSeq(s, 1, i - 1) \o new \o replace(SubSeq(s, i + Len(old), Len(s)), old, new)

\* str.split(sep), sep non-empty: always at least one piece
RECURSIVE split(_, _)
split(s, sep) ==
    LET i == find(s, sep) IN
    IF i = 0 THEN <<s>>
    ELSE <<SubSeq(s, 1, i - 1)>> \o split(SubSeq(s, i + Len(sep), Len(s)), sep)

\* str.zfill(2)
zfill2(s) == IF Len(s) < 2 THEN "0" \o s ELSE s

\* int() of a digit string
RECURSIVE int(_)
int(s) == IF s = "" THEN 0
          ELSE 10 * int(SubSeq(s, 1, Len(s) - 1)) + DigitTable[CharAt(s, Len(s))]

IsDigits(s) == s # "" /\ \A i \in 1..Len(s) : CharAt(s, i) \in Digit

(***************************************************************************)
(* Regular expressions as trees, matched the way Python's re does: a       *)
(* backtracking search whose alternatives are tried in priority order.     *)
(* Match returns every way the node can match at position i, best first,   *)
(* as pairs <<next position, captures>>.                                   *)
(***************************************************************************)
Lit(s) == [t |-> "lit", s |-> s]
Cls(set) == [t |-> "cls", set |-> set]
Cat(items) == [t |-> "cat", items |-> items]
Alt(items) == [t |-> "alt", items |-> items]
\* r{lo,hi}; inf marks an open upper end (r*, r+), greedy is FALSE for r+?
Rep(r, lo, hi) ==
    [t |-> "rep", r |-> r, lo |-> lo, hi |-> hi, inf |-> FALSE, greedy |-> TRUE]
Opt(r) == Rep(r, 0, 1)
Star(r) == [t |-> "rep", r |-> r, lo |-> 0, hi |-> 0, inf |-> TRUE, greedy |-> TRUE]
Plus(r) == [t |-> "rep", r |-> r, lo |-> 1, hi |-> 0, inf |-> TRUE, greedy |-> TRUE]
LazyPlus(r) == [t |-> "rep", r |-> r, lo |-> 1, hi |-> 0, inf |-> TRUE, greedy |-> FALSE]
Grp(n, r) == [t |-> "grp", n |-> n, r |-> r]

NoCaps == << <<0, 0>>, <<0, 0>>, <<0, 0>> >>

EqChar(a, b, ic) == IF ic THEN LowerChar(a) = LowerChar(b) ELSE a = b
EqText(a, b, ic) ==
    /\ Len(a) = Len(b)
    /\ \A k \in 1..Len(a) : EqChar(CharAt(a, k), CharAt(b, k), ic)
InCls(c, set, ic) ==
    IF ic THEN c \in set \/ LowerChar(c) \in set \/ UpperChar(c) \in set ELSE c \in set

RECURSIVE Match(_, _, _, _, _)
RECURSIVE MatchCat(_, _, _, _, _, _)
RECURSIVE CatOver(_, _, _, _, _, _, _)
RECURSIVE MatchAlt(_, _, _, _, _, _)
RECURSIVE MatchRep(_, _, _, _, _, _)
RECURSIVE RepOver(_, _, _, _, _, _, _)
RECURSIVE RunLength(_, _, _, _)

\* how many characters from position i on are in the class
RunLength(s, i, set, ic) ==
    IF i <= Len(s) /\ InCls(CharAt(s, i), set, ic) THEN 1 + RunLength(s, i + 1, set, ic) ELSE 0

\* The ends of a repeated character class, best first: a greedy repetition
\* prefers the longest run, a lazy one the shortest.
ClassRep(re, ic, s, i, caps) ==
    LET run == RunLength(s, i, re.r.set, ic)
        most == IF re.inf \/ run < re.hi THEN run ELSE re.hi
        count == IF most >= re.lo THEN most - re.lo + 1 ELSE 0
    IN [k \in 1..count |->
          <<IF re.greedy THEN i + most - (k - 1) ELSE i + re.lo + (k - 1), caps>>]

Match(re, ic, s, i, caps) ==
    CASE re.t = "lit" ->
           IF i + Len(re.s) - 1 <= Len(s) /\ EqText(SubSeq(s, i, i + Len(re.s) - 1), re.s, ic)
           THEN << <<i + Len(re.s), caps>> >> ELSE <<>>
      [] re.t = "cls" ->
           IF i <= Len(s) /\ InCls(CharAt(s, i), re.set, ic)
           THEN << <<i + 1, caps>> >> ELSE <<>>
      [] re.t = "cat" -> MatchCat(re.items, 1, ic, s, i, caps)
      [] re.t = "alt" -> MatchAlt(re.items, 1, ic, s, i, caps)
      [] re.t = "rep" -> IF re.r.t = "cls" THEN ClassRep(re, ic, s, i, caps)
                         ELSE MatchRep(re, 0, ic, s, i, caps)
      [] re.t = "grp" ->
           LET rs == Match(re.r, ic, s, i, caps) IN
           [k \in 1..Len(rs) |->
              <<rs[k][1], [rs[k][2] EXCEPT ![re.n] = <<i, rs[k][1] - 1>>]>>]

MatchCat(items, idx, ic, s, i, caps) ==
    IF idx > Len(items) THEN << <<i, caps>> >>
    ELSE LET rs == Match(items[idx], ic, s, i, caps) IN
         CatOver(rs, 1, Len(rs), items, idx + 1, ic, s)

\* the rest of the concatenation after each of rs[lo..hi], in that order
CatOver(rs, lo, hi, items, idx, ic, s) ==
    IF lo > hi THEN <<>>
    ELSE IF lo = hi THEN MatchCat(items, idx, ic, s, rs[lo][1], rs[lo][2])
    ELSE CatOver(rs, lo, (lo + hi) \div 2, items, idx, ic, s)
           \o CatOver(rs, (lo + hi) \div 2 + 1, hi, items, idx, ic, s)

MatchAlt(items, idx, ic, s, i, caps) ==
    IF idx > Len(items) THEN <<>>
    ELSE Match(items[idx], ic, s, i, caps) \o MatchAlt(items, idx + 1, ic, s, i, caps)

MatchRep(re, n, ic, s, i, caps) ==
    LET stop == IF n >= re.lo THEN << <<i, caps>> >> ELSE <<>>
        more == IF re.inf \/ n < re.hi
                THEN RepOver(Match(re.r, ic, s, i, caps), 1, re, n + 1, ic, s, i)
                ELSE <<>>
    IN IF re.greedy THEN more \o stop ELSE stop \o more

RepOver(rs, k, re, n, ic, s, i) ==
    IF k > Len(rs) THEN <<>>
    ELSE (IF rs[k][1] > i THEN MatchRep(re, n, ic, s, rs[k][1], rs[k][2]) ELSE <<>>)
           \o RepOver(rs, k + 1, re, n, ic, s, i)

\* re.search: the leftmost position with a match, and there the best match.
\* [start, end, caps] with end the position after the match; None when none.
\* a if a is present, else b
OrElse(a, b) == IF a # None THEN a ELSE b
\* the match object of the best of the matches rs that start at i
MatchObject(i, rs) ==
    IF rs # <<>> THEN Some([start |-> i, end |-> rs[1][1], caps |-> rs[1][2]]) ELSE None
\* the first match that starts in lo..hi (by halves, to stay shallow)
RECURSIVE SearchIn(_, _, _, _, _)
SearchIn(re, ic, s, lo, hi) ==
    IF lo = hi THEN MatchObject(lo, Match(re, ic, s, lo, NoCaps))
    ELSE OrElse(SearchIn(re, ic, s, lo, (lo + hi) \div 2),
                SearchIn(re, ic, s, (lo + hi) \div 2 + 1, hi))
search(re, ic, s) == SearchIn(re, ic, s, 1, Len(s) + 1)

\* match.group(n)
group(s, m, n) == SubSeq(s, m.caps[n][1], m.caps[n][2])

\* re.sub(r'\s+', ' ', text)
\* every run of whitespace becomes one space: the first character of a run
\* is written as a space and the others are dropped
CollapseSpace(s) ==
    Join([i \in 1..Len(s) |->
            IF CharAt(s, i) \notin Space THEN CharAt(s, i)
            ELSE IF i > 1 /\ CharAt(s, i - 1) \in Space THEN "" ELSE " "])

\* mutant: the text is trimmed, its inner whitespace kept
normalize_text_StripOnly(text) == strip(text)
normalize_text(text) == strip(CollapseSpace(text))

(***************************************************************************)
(* regex_patterns.py: the pattern tables.                                  *)
(***************************************************************************)
D == Cls(Digit)
S == Cls(Space)
Pat(re, ic) == [re |-> re, ic |-> ic]

\* \d{1,10}(?:,\d{2,3})*(?:\.\d{1,2})?
NUM == Cat(<<Rep(D, 1, 10), Star(Cat(<<Lit(","), Rep(D, 2, 3)>>)),
             Opt(Cat(<<Lit("."), Rep(D, 1, 2)>>))>>)
\* \d{1,10}(?:\.\d{1,2})?
PLAINNUM == Cat(<<Rep(D, 1, 10), Opt(Cat(<<Lit("."), Rep(D, 1, 2)>>))>>)
\* Rs\.?
RS == Cat(<<Lit("Rs"), Opt(Lit("."))>>)
\* (?:debited|credited)
DRCR == Alt(<<Lit("debited"), Lit("credited")>>)
\* (?:INR|Rs\.?|₹)
CUR == Alt(<<Lit("INR"), RS, Lit("₹")>>)

AMOUNT_PATTERNS == <<
    \* (?i)(?:for\s+)?Rs\.?\s?(NUM)
    Pat(Cat(<<Opt(Cat(<<Lit("for"), Plus(S)>>)), RS, Opt(S), Grp(1, NUM)>>), TRUE),
    \* (?i)INR\s?(NUM)\s+(?:has\s+been\s+)?(?:debited|credited)
    Pat(Cat(<<Lit("INR"), Opt(S), Grp(1, NUM), Plus(S),
              Opt(Cat(<<Lit("has"), Plus(S), Lit("been"), Plus(S)>>)), DRCR>>), TRUE),
    \* (?i)(?:debited|credited)\s+(?:by\s+)?(PLAINNUM)
    Pat(Cat(<<DRCR, Plus(S), Opt(Cat(<<Lit("by"), Plus(S)>>)), Grp(1, PLAINNUM)>>), TRUE),
    \* (?i)(?:debited|credited)\s+(?:by\s+)?(?:INR|Rs\.?)\s?(NUM)
    Pat(Cat(<<DRCR, Plus(S), Opt(Cat(<<Lit("by"), Plus(S)>>)),
              Alt(<<Lit("INR"), RS>>), Opt(S), Grp(1, NUM)>>), TRUE),
    \* (?i)INR\s?(NUM)
    Pat(Cat(<<Lit("INR"), Opt(S), Grp(1, NUM)>>), TRUE),
    \* ₹\s?(NUM)
    Pat(Cat(<<Lit("₹"), Opt(S), Grp(1, NUM)>>), FALSE),
    \* (?i)payment\s+of\s+(?:INR|Rs\.?|₹)?\s?(NUM)
    Pat(Cat(<<Lit("payment"), Plus(S), Lit("of"), Plus(S), Opt(CUR), Opt(S),
              Grp(1, NUM)>>), TRUE),
    \* (?i)(?:paid|amount)\s+(?:INR|Rs\.?|₹)?\s?(NUM)
    Pat(Cat(<<Alt(<<Lit("paid"), Lit("amount")>>), Plus(S), Opt(CUR), Opt(S),
              Grp(1, NUM)>>), TRUE),
    \* (?:INR|Rs\.?|₹)\s?(NUM)
    Pat(Cat(<<CUR, Opt(S), Grp(1, NUM)>>), FALSE) >>

STOP_WORDS == {"your", "account", "acct", "a/c", "upi"}

\* ([A-Z][A-Za-z0-9\s&]+?)
NAME == Grp(1, Cat(<<Cls(Upper), LazyPlus(Cls(Upper \cup Lower \cup Digit \cup Space \cup {"&"}))>>))
\* \s+word
SP(word) == Cat(<<Plus(S), Lit(word)>>)

MERCHANT_PATTERNS == <<
    \* (?i)towards\s+NAME(?:\s+from|\s+A/c)
    Pat(Cat(<<Lit("towards"), Plus(S), NAME, Alt(<<SP("from"), SP("A/c")>>)>>), TRUE),
    \* (?i)trf\s+to\s+NAME(?:\s+Refno|\s+on|\s+ref|\s+from)
    Pat(Cat(<<Lit("trf"), Plus(S), Lit("to"), Plus(S), NAME,
              Alt(<<SP("Refno"), SP("on"), SP("ref"), SP("from")>>)>>), TRUE),
    \* (?i)(?:paid?\s+)?to\s+NAME(?:\s+on|\s+was|\s+for|\.|\s+UPI|\s+Ref|\s+from)
    Pat(Cat(<<Opt(Cat(<<Lit("pai"), Opt(Lit("d")), Plus(S)>>)), Lit("to"), Plus(S), NAME,
              Alt(<<SP("on"), SP("was"), SP("for"), Lit("."), SP("UPI"), SP("Ref"),
                    SP("from")>>)>>), TRUE),
    \* (?i)at\s+NAME(?:\s+on|\s+was|\s+for|\.|\s+Dial)
    Pat(Cat(<<Lit("at"), Plus(S), NAME,
              Alt(<<SP("on"), SP("was"), SP("for"), Lit("."), SP("Dial")>>)>>), TRUE),
    \* (?i)payment\s+to\s+NAME(?:\s+on|\s+was|\.|\s+Ref|\s+from)
    Pat(Cat(<<Lit("payment"), Plus(S), Lit("to"), Plus(S), NAME,
              Alt(<<SP("on"), SP("was"), Lit("."), SP("Ref"), SP("from")>>)>>), TRUE),
    \* (?i)for\s+UPI\s+payment\s+to\s+NAME(?:\s+on|\.|\s+from)
    Pat(Cat(<<Lit("for"), Plus(S), Lit("UPI"), Plus(S), Lit("payment"), Plus(S),
              Lit("to"), Plus(S), NAME, Alt(<<SP("on"), Lit("."), SP("from")>>)>>), TRUE),
    \* (?i)with\s+NAME(?:\s+on|\s+is|\.|\s+from)
    Pat(Cat(<<Lit("with"), Plus(S), NAME,
              Alt(<<SP("on"), SP("is"), Lit("."), SP("from")>>)>>), TRUE),
    \* (?i)(?:from|merchant|vendor)\s+NAME(?:\s|\.|\s+on)
    Pat(Cat(<<Alt(<<Lit("from"), Lit("merchant"), Lit("vendor")>>), Plus(S), NAME,
              Alt(<<S, Lit("."), SP("on")>>)>>), TRUE) >>

(***************************************************************************)
(* regex_patterns.py: the extractors.                                      *)
(***************************************************************************)
\* float(s) for the strings the amount patterns capture, in hundredths:
\* digits, then optionally a point and digits.  Anything else (a comma, an
\* empty string) is Python's ValueError, None here.
float(s) ==
    LET p == find(s, ".")
        whole == IF p = 0 THEN s ELSE SubSeq(s, 1, p - 1)
        frac == IF p = 0 THEN "" ELSE SubSeq(s, p + 1, Len(s))
    IN IF IsDigits(whole) /\ (frac = "" \/ IsDigits(frac)) /\ Len(frac) <= 2
       THEN Some(100 * int(whole)
                 + (IF Len(frac) = 1 THEN 10 * int(frac) ELSE int(frac)))
       ELSE None

\* what a match m of an amount pattern yields: float(amount_str.replace(',', ''))
\* or, on ValueError (and when there is no match), nothing
AmountOf(text, m) ==
    IF m = None THEN None ELSE float(replace(group(text, m[1], 1), ",", ""))

\* for pattern in AMOUNT_PATTERNS[k..]: the first pattern that yields a value
RECURSIVE AmountFrom(_, _)
AmountFrom(text, k) ==
    IF k > Len(AMOUNT_PATTERNS) THEN None
    ELSE OrElse(AmountOf(text, search(AMOUNT_PATTERNS[k].re, AMOUNT_PATTERNS[k].ic, text)),
                AmountFrom(text, k + 1))
\* mutant: the first pattern is never tried
extract_amount_FromSecond(text) == AmountFrom(text, 2)
extract_amount(text) == AmountFrom(text, 1)

\* merchant = re.sub(r'\s+', ' ', match.group(1).strip()).rstrip('.,;:')
CleanMerchant(captured) == rstrip(CollapseSpace(strip(captured)), {".", ",", ";", ":"})
\* if len(merchant) > 2 and merchant.lower() not in STOP_WORDS: return merchant
\* mutant: the stop words are not looked at
AcceptMerchant_AnyWord(name) ==
    IF Len(name) > 2 THEN Some(name) ELSE None
AcceptMerchant(name) ==
    IF Len(name) > 2 /\ lower(name) \notin STOP_WORDS THEN Some(name) ELSE None
MerchantOf(text, m) ==
    IF m = None THEN None ELSE AcceptMerchant(CleanMerchant(group(text, m[1], 1)))

\* for pattern in MERCHANT_PATTERNS[k..]: the first accepted capture
RECURSIVE MerchantFrom(_, _)
MerchantFrom(text, k) ==
    IF k > Len(MERCHANT_PATTERNS) THEN None
    ELSE OrElse(MerchantOf(text,
                           search(MERCHANT_PATTERNS[k].re, MERCHANT_PATTERNS[k].ic, text)),
                MerchantFrom(text, k + 1))
extract_merchant(text) == MerchantFrom(text, 1)

(***************************************************************************)
(* Dates.  datetime.strptime is modelled as CPython's _strptime does it:   *)
(* the format becomes a regular expression (one group per directive: 1 the *)
(* day, 2 the month, 3 the year) that must match the whole string, and the *)
(* fields must then form a calendar date.                                  *)
(***************************************************************************)
MonthNames == <<"Jan", "Feb", "Mar", "Apr", "May", "Jun",
                "Jul", "Aug", "Sep", "Oct", "Nov", "Dec">>
\* (Jan|Feb|Mar|Apr|May|Jun|Jul|Aug|Sep|Oct|Nov|Dec)
MON == Alt([k \in 1..12 |-> Lit(MonthNames[k])])
SEP == Cls({"/", "-"})
DatePat(re, fmt) == [re |-> re, fmt |-> fmt]

DATE_PATTERNS == <<
    \* (\d{1,2})[/\-](\d{1,2})[/\-](\d{4})
    DatePat(Cat(<<Grp(1, Rep(D, 1, 2)), SEP, Grp(2, Rep(D, 1, 2)), SEP,
                  Grp(3, Rep(D, 4, 4))>>), "%d-%m-%Y"),
    \* (\d{1,2})(Jan|...|Dec)(\d{2,4})
    DatePat(Cat(<<Grp(1, Rep(D, 1, 2)), Grp(2, MON), Grp(3, Rep(D, 2, 4))>>), "%d%b%y"),
    \* (\d{1,2})\s+(Jan|...|Dec)[a-z]*\s+(\d{4})
    DatePat(Cat(<<Grp(1, Rep(D, 1, 2)), Plus(S), Grp(2, MON), Star(Cls(Lower)), Plus(S),
                  Grp(3, Rep(D, 4, 4))>>), "%d %b %Y"),
    \* (\d{4})[/\-](\d{1,2})[/\-](\d{1,2})
    DatePat(Cat(<<Grp(1, Rep(D, 4, 4)), SEP, Grp(2, Rep(D, 1, 2)), SEP,
                  Grp(3, Rep(D, 1, 2))>>), "%Y-%m-%d"),
    \* (\d{1,2})-(Jan|...|Dec)-(\d{2})
    DatePat(Cat(<<Grp(1, Rep(D, 1, 2)), Lit("-"), Grp(2, MON), Lit("-"),
                  Grp(3, Rep(D, 2, 2))>>), "%d-%b-%y"),
    \* (Jan|...|Dec)[a-z]*\s+(\d{1,2}),?\s+(\d{4})
    DatePat(Cat(<<Grp(1, MON), Star(Cls(Lower)), Plus(S), Grp(2, Rep(D, 1, 2)),
                  Opt(Lit(",")), Plus(S), Grp(3, Rep(D, 4, 4))>>), "%b %d %Y") >>

\* _strptime.TimeRE: the regular expression of one directive
DirectiveRe(c) ==
    CASE c = "d" -> Grp(1, Alt(<<Cat(<<Lit("3"), Cls({"0", "1"})>>),
                                 Cat(<<Cls({"1", "2"}), D>>),
                                 Cat(<<Lit("0"), Cls(Digit \ {"0"})>>),
                                 Cls(Digit \ {"0"}),
                                 Cat(<<Lit(" "), Cls(Digit \ {"0"})>>)>>))
      [] c = "m" -> Grp(2, Alt(<<Cat(<<Lit("1"), Cls({"0", "1", "2"})>>),
                                 Cat(<<Lit("0"), Cls(Digit \ {"0"})>>),
                                 Cls(Digit \ {"0"})>>))
      [] c = "b" -> Grp(2, MON)
      [] c = "Y" -> Grp(3, Rep(D, 4, 4))
      [] c = "y" -> Grp(3, Rep(D, 2, 2))

\* _strptime.TimeRE.pattern: directives, whitespace as \s+, the rest literally
RECURSIVE FormatItems(_)
FormatItems(fmt) ==
    IF fmt = "" THEN <<>>
    ELSE IF CharAt(fmt, 1) = "%"
         THEN <<DirectiveRe(CharAt(fmt, 2))>> \o FormatItems(SubSeq(fmt, 3, Len(fmt)))
         ELSE IF CharAt(fmt, 1) \in Space
              THEN <<Plus(S)>> \o FormatItems(lstrip(fmt, Space))
              ELSE <<Lit(CharAt(fmt, 1))>> \o FormatItems(SubSeq(fmt, 2, Len(fmt)))

IsLeap(y) == (y % 4 = 0 /\ y % 100 # 0) \/ y % 400 = 0
DaysInMonth(y, m) ==
    IF m = 2 THEN (IF IsLeap(y) THEN 29 ELSE 28)
    ELSE IF m \in {4, 6, 9, 11} THEN 30 ELSE 31

MonthNumber(name) == CHOOSE k \in 1..12 : EqText(MonthNames[k], name, TRUE)

\* datetime.strptime(date_str, fmt): the date [year, month, day], or None
\* for ValueError (no match, unconverted data, no such calendar date)
\* datetime(year, month, day), None where there is no such day
CalendarDate(year, month, day) ==
    IF year < 1 \/ day > DaysInMonth(year, month) THEN None
    ELSE Some([year |-> year, month |-> month, day |-> day])
\* %y: 69..99 are 1969..1999 and 00..68 are 2000..2068
YearOf(fmt, digits) ==
    IF Contains(fmt, "%y") THEN (IF int(digits) <= 68 THEN 2000 ELSE 1900) + int(digits)
    ELSE int(digits)
MonthOf(fmt, field) == IF Contains(fmt, "%b") THEN MonthNumber(field) ELSE int(field)
\* the date of the fields d (day), m (month) and y (year) that the format matched
DateOfFields(fmt, d, m, y) ==
    CalendarDate(YearOf(fmt, y), MonthOf(fmt, m), int(lstrip(d, {" "})))
\* rs: the matches of the format's expression at the start of date_str
DateOfMatch(fmt, date_str, rs) ==
    IF rs = <<>> \/ rs[1][1] # Len(date_str) + 1 THEN None
    ELSE DateOfFields(fmt, SubSeq(date_str, rs[1][2][1][1], rs[1][2][1][2]),
                           SubSeq(date_str, rs[1][2][2][1], rs[1][2][2][2]),
                           SubSeq(date_str, rs[1][2][3][1], rs[1][2][3][2]))
strptime(date_str, fmt) ==
    DateOfMatch(fmt, date_str, Match(Cat(FormatItems(fmt)), TRUE, date_str, 1, NoCaps))

\* str(n) for n >= 0, and n written with at least w digits
RECURSIVE str(_)
str(n) == IF n < 10 THEN CharAt(DigitChars, n + 1)
          ELSE str(n \div 10) \o CharAt(DigitChars, (n % 10) + 1)
RECURSIVE ZeroPad(_, _)
ZeroPad(s, w) == IF Len(s) < w THEN ZeroPad("0" \o s, w) ELSE s

\* dt.strftime('%Y-%m-%d').  The C library writes %Y: glibc writes a year
\* below 1000 without leading zeros, other libraries (and CPython from 3.13
\* on) pad it to four digits; pad says which.
strftime(dt, pad) ==
    (IF pad THEN ZeroPad(str(dt.year), 4) ELSE str(dt.year))
        \o "-" \o ZeroPad(str(dt.month), 2) \o "-" \o ZeroPad(str(dt.day), 2)

\* The body of extract_date's try block up to strptime: the canonical date
\* string and the format it is parsed with, from the three groups.
\* the month-name branch: the year is expanded when it has two digits, and
\* the format f is then the pattern's with %y replaced by %Y
\* mutant: the POSIX pivot of %y (69) instead of the code's 50
ExpandYear_Pivot68(year) ==
    IF Len(year) = 2 THEN (IF int(year) <= 68 THEN "20" ELSE "19") \o year ELSE year
ExpandYear(year) ==
    IF Len(year) = 2 THEN (IF int(year) <= 50 THEN "20" ELSE "19") \o year ELSE year
ExpandFormat(fmt, year) == IF Len(year) = 2 THEN replace(fmt, "%y", "%Y") ELSE fmt
MonthNameString(day, month, year, f) ==
    IF f = "%d%b%y" \/ f = "%d%b%Y"
    THEN [s |-> day \o month \o year, fmt |-> f]
    ELSE IF f = "%d-%b-%y" \/ f = "%d-%b-%Y"
    THEN [s |-> day \o "-" \o month \o "-" \o year, fmt |-> f]
    ELSE [s |-> day \o " " \o month \o " " \o year, fmt |-> "%d %b %Y"]
DateString(g, fmt) ==
    IF fmt = "%b %d %Y"
    THEN [s |-> capitalize(g[1]) \o " " \o zfill2(g[2]) \o " " \o g[3], fmt |-> fmt]
    ELSE IF Contains(lower(fmt), "%b")
    THEN MonthNameString(zfill2(g[1]), capitalize(g[2]), ExpandYear(g[3]),
                         ExpandFormat(fmt, g[3]))
    ELSE IF fmt = "%Y-%m-%d"
    THEN [s |-> g[1] \o "-" \o zfill2(g[2]) \o "-" \o zfill2(g[3]), fmt |-> fmt]
    ELSE [s |-> zfill2(g[1]) \o "-" \o zfill2(g[2]) \o "-" \o g[3], fmt |-> fmt]

\* dt = datetime.strptime(date_str, date_format); return dt.strftime('%Y-%m-%d')
\* and, on ValueError, nothing
IsoOf(dt, pad) == IF dt = None THEN None ELSE Some(strftime(dt[1], pad))
ParseDateString(ds) == strptime(ds.s, ds.fmt)
\* what a match m of a date pattern yields
DateOf(text, m, fmt, pad) ==
    IF m = None THEN None
    ELSE IsoOf(ParseDateString(DateString([n \in 1..3 |-> group(text, m[1], n)], fmt)), pad)

\* for pattern, date_format in DATE_PATTERNS[k..]: the first that parses
RECURSIVE DateFrom(_, _, _)
\* mutant: a pattern that matches and fails to parse ends the search
DateFrom_Abort(text, k, pad) ==
    IF k > Len(DATE_PATTERNS) THEN None
    ELSE IF search(DATE_PATTERNS[k].re, TRUE, text) # None
         THEN DateOf(text, search(DATE_PATTERNS[k].re, TRUE, text),
                     DATE_PATTERNS[k].fmt, pad)
         ELSE DateFrom(text, k + 1, pad)
DateFrom(text, k, pad) ==
    IF k > Len(DATE_PATTERNS) THEN None
    ELSE OrElse(DateOf(text, search(DATE_PATTERNS[k].re, TRUE, text),
                       DATE_PATTERNS[k].fmt, pad),
                DateFrom(text, k + 1, pad))
extract_date(text, pad) == DateFrom(text, 1, pad)

\* datetime.fromisoformat(s) for a date-only string: YYYY-MM-DD with exactly
\* four, two and two digits and a real calendar date; None for ValueError
fromisoformat(s) ==
    LET y == SubSeq(s, 1, 4)
        m == SubSeq(s, 6, 7)
        d == SubSeq(s, 9, 10)
    IN IF /\ Len(s) = 10 /\ CharAt(s, 5) = "-" /\ CharAt(s, 8) = "-"
          /\ IsDigits(y) /\ IsDigits(m) /\ IsDigits(d)
          /\ int(y) >= 1 /\ int(m) \in 1..12 /\ int(d) \in 1..DaysInMonth(int(y), int(m))
       THEN Some([year |-> int(y), month |-> int(m), day |-> int(d)])
       ELSE None

(***************************************************************************)
(* upi_parser.py                                                           *)
(***************************************************************************)
\* mutant: the constructor keeps the merchant it is given, "" when there is none
ParsedTransaction_NoDefault(raw, amount, merchant, timestamp) ==
    [raw_text |-> raw, amount |-> amount,
     merchant |-> IF merchant = None THEN "" ELSE merchant[1],
     timestamp |-> timestamp]
\* ParsedTransaction.__init__: merchant or "Unknown"
ParsedTransaction(raw, amount, merchant, timestamp) ==
    [raw_text |-> raw, amount |-> amount,
     merchant |-> IF merchant = None \/ merchant = Some("") THEN "Unknown" ELSE merchant[1],
     timestamp |-> timestamp]

\* mutant: the gate lets a zero amount through
ValidAmount_NotNone(amount) == amount # None
\* parse_message_line's gate: not (amount is None or amount <= 0)
ValidAmount(amount) == amount # None /\ amount[1] > 0

\* parse_message_line(line): Some(ParsedTransaction) or None
\* timestamp: datetime.fromisoformat(date_str) if date_str, None on ValueError
TimestampOf(date_str) == IF date_str # None THEN fromisoformat(date_str[1]) ELSE None

\* parse_message_line from the extracted amount on
ParseWithAmount(line, amount, pad) ==
    IF ~ValidAmount(amount) THEN None
    ELSE Some(ParsedTransaction(line, amount[1], extract_merchant(line),
                                TimestampOf(extract_date(line, pad))))
\* parse_message_line from the normalized line on
ParseNormalized(line, pad) ==
    IF line = "" THEN None ELSE ParseWithAmount(line, extract_amount(line), pad)

\* parse_message_line(line): Some(ParsedTransaction) or None
parse_message_line(text, pad) == ParseNormalized(normalize_text(text), pad)

MinLineLength == 10

\* mutant: only empty lines are skipped
SkipLine_OnlyEmpty(line) == line = ""
\* if not line or len(line) < 10: continue
SkipLine(line) == line = "" \/ Len(line) < MinLineLength
\* if sub_line and len(sub_line) >= 10
KeepSubLine(sub_line) == sub_line # "" /\ Len(sub_line) >= MinLineLength
\* mutant: the semicolon is not looked for
HasDelimiter_PipeOnly(line) == Contains(line, "|")
\* if ';' in line or '|' in line
HasDelimiter(line) == Contains(line, ";") \/ Contains(line, "|")
\* mutant: the pipe takes precedence
Delimiter_PipeFirst(line) == IF Contains(line, "|") THEN "|" ELSE ";"
\* delimiter = ';' if ';' in line else '|'
Delimiter(line) == IF Contains(line, ";") THEN ";" ELSE "|"
\* mutant: the record is put in front
AppendParsed_Prepend(transactions, parsed) ==
    IF parsed # None THEN <<parsed[1]>> \o transactions ELSE transactions
\* if parsed: transactions.append(parsed)
AppendParsed(transactions, parsed) ==
    IF parsed # None THEN Append(transactions, parsed[1]) ELSE transactions

\* for sub_line in sub_lines: ...
RECURSIVE ParseSubLines(_, _, _, _)
ParseSubLines(sub_lines, k, transactions, pad) ==
    IF k > Len(sub_lines) THEN transactions
    ELSE ParseSubLines(sub_lines, k + 1,
            IF KeepSubLine(strip(sub_lines[k]))
            THEN AppendParsed(transactions, parse_message_line(strip(sub_lines[k]), pad))
            ELSE transactions,
            pad)

\* for line in lines: ...
RECURSIVE ParseLines(_, _, _, _)
\* mutant: a blank line ends the loop (break for continue)
ParseLines_StopAtBlank(lines, k, transactions, pad) ==
    IF k > Len(lines) \/ strip(lines[k]) = "" THEN transactions
    ELSE LET line == strip(lines[k]) IN
         ParseLines(lines, k + 1,
            IF SkipLine(line) THEN transactions
            ELSE IF HasDelimiter(line)
                 THEN ParseSubLines(split(line, Delimiter(line)), 1, transactions, pad)
                 ELSE AppendParsed(transactions, parse_message_line(line, pad)),
            pad)
ParseLines(lines, k, transactions, pad) ==
    IF k > Len(lines) THEN transactions
    ELSE LET line == strip(lines[k]) IN
         ParseLines(lines, k + 1,
            IF SkipLine(line) THEN transactions
            ELSE IF HasDelimiter(line)
                 THEN ParseSubLines(split(line, Delimiter(line)), 1, transactions, pad)
                 ELSE AppendParsed(transactions, parse_message_line(line, pad)),
            pad)

\* raw_text.replace('\r\n', '\n').replace('\r', '\n')
NormalizeLineEndings(raw) == replace(replace(raw, "\r\n", "\n"), "\r", "\n")

\* parse_messages(raw_text): the list of ParsedTransaction
parse_messages(raw, pad) ==
    ParseLines(split(strip(NormalizeLineEndings(raw)), "\n"), 1, <<>>, pad)

\* extract_transaction_details: the record when there is none to return
Fallback(raw) == [raw_text |-> raw, amount |-> 0, merchant |-> "Unknown", timestamp |-> None]
\* mutant: the fallback record carries the normalized text
DetailsOf_Normalized(raw, parsed) ==
    IF parsed # None THEN parsed[1] ELSE Fallback(normalize_text(raw))
\* if parsed: return parsed.to_dict(); else the fallback record
DetailsOf(raw, parsed) == IF parsed # None THEN parsed[1] ELSE Fallback(raw)
\* extract_transaction_details(raw_text): a dictionary, always
extract_transaction_details(raw, pad) == DetailsOf(raw, parse_message_line(raw, pad))

(***************************************************************************)
(* category_mapper.py.  The dict CATEGORY_KEYWORDS is the sequence of its  *)
(* items in insertion order, which is the order a dict iterates in.        *)
(***************************************************************************)
DefaultKeywords == <<
    [category |-> "Food", keywords |-> <<
        "zomato", "swiggy", "food", "restaurant", "cafe", "pizza", "burger",
        "dominos", "mcdonald", "kfc", "subway", "starbucks", "dunkin",
        "barbeque", "dining", "eatery", "kitchen", "biryani", "canteen", "mess",
        "dhaba", "tiffin", "lunch", "breakfast", "dinner", "snacks" >>],
    [category |-> "Travel", keywords |-> <<
        "ola", "uber", "rapido", "cab", "taxi", "metro", "railway", "irctc",
        "flight", "airline", "indigo", "spicejet", "goair", "vistara", "bus",
        "redbus", "train", "makemytrip", "yatra", "cleartrip", "travel",
        "booking", "hotel", "oyo", "petrol", "fuel", "parking" >>],
    [category |-> "Bills", keywords |-> <<
        "electricity", "electric", "water", "gas", "bill", "recharge", "mobile",
        "airtel", "jio", "vi", "vodafone", "broadband", "wifi", "internet",
        "postpaid", "utility", "bsnl", "tata sky", "dish tv", "dth", "prepaid",
        "telephone" >>],
    [category |-> "Shopping", keywords |-> <<
        "amazon", "flipkart", "myntra", "ajio", "shopping", "store", "mall",
        "retail", "fashion", "clothing", "shoes", "accessories", "electronics",
        "gadgets", "meesho", "snapdeal", "nykaa", "lifestyle", "shoppers stop",
        "pantaloons", "westside" >>],
    [category |-> "Groceries", keywords |-> <<
        "grocery", "supermarket", "mart", "bigbasket", "grofers", "blinkit",
        "dunzo", "instamart", "zepto", "jiomart", "dmart", "reliance fresh",
        "more", "vegetables", "fruits", "kirana", "provisions" >>],
    [category |-> "Entertainment", keywords |-> <<
        "netflix", "prime", "hotstar", "disney", "sony liv", "zee5",
        "entertainment", "movie", "cinema", "pvr", "inox", "theatre", "spotify",
        "youtube", "gaana", "music", "gaming", "game", "concert", "event",
        "show", "storytv", "sony", "ott", "streaming", "subscription", "jio tv",
        "airtel tv" >>],
    [category |-> "Education", keywords |-> <<
        "education", "course", "tuition", "school", "college", "university",
        "udemy", "coursera", "byju", "unacademy", "vedantu", "learning", "books",
        "stationery", "exam", "fees", "institute", "academy" >>],
    [category |-> "Health", keywords |-> <<
        "hospital", "clinic", "doctor", "medical", "pharmacy", "medicine",
        "health", "apollo", "fortis", "max", "medanta", "pharma", "diagnostic",
        "lab", "test", "gym", "fitness", "cult fit", "wellness", "dental",
        "physiotherapy" >>] >>

VARIABLES
    CATEGORY_KEYWORDS,  \* category_mapper.CATEGORY_KEYWORDS, the process-wide table
    raw_text,           \* the text the calls of this behaviour are given
    merchant,           \* the merchant map_category is given: None or Some(name)
    pads_year,          \* whether the C library's strftime pads %Y to four digits
    adds,               \* how many add_category_keywords calls were made
    call,               \* the last call and what it returned
    reader,             \* the frame of a map_category call that runs in a thread
    writer              \* the frame of an add_category_keywords call in another

vars == <<CATEGORY_KEYWORDS, raw_text, merchant, pads_year, adds, call, reader, writer>>

Categories(table) == [k \in 1..Len(table) |-> table[k].category]
\* category in CATEGORY_KEYWORDS
HasCategory(table, category) == \E k \in 1..Len(table) : table[k].category = category

\* mutant: the merchant is left out of the search text
TextToCheck_TextOnly(text, m) == lower(text)
\* text_to_check: raw_text.lower(), plus " " + merchant.lower() when
\* merchant is truthy and not "Unknown"
TextToCheck(text, m) ==
    lower(text) \o (IF m # None /\ m[1] # "" /\ m[1] # "Unknown" THEN " " \o lower(m[1])
                    ELSE "")

\* any(keyword.lower() in text_to_check for keyword in keywords)
KeywordHit(keywords, text) ==
    \E k \in 1..Len(keywords) : Contains(text, lower(keywords[k]))

\* the loop over CATEGORY_KEYWORDS.items(): matched_categories
RECURSIVE MatchedFrom(_, _, _)
MatchedFrom(table, k, text) ==
    IF k > Len(table) THEN <<>>
    ELSE (IF KeywordHit(table[k].keywords, text) THEN <<table[k].category>> ELSE <<>>)
           \o MatchedFrom(table, k + 1, text)
MatchedCategories(table, text) == MatchedFrom(table, 1, text)

\* mutant: the last matched category wins
FirstMatched_Last(matched) == IF matched # <<>> THEN matched[Len(matched)] ELSE "Others"
\* mutant: the fallback label is misspelt
FirstMatched_Other(matched) == IF matched # <<>> THEN matched[1] ELSE "Other"
\* matched_categories[0] if matched_categories else "Others"
FirstMatched(matched) == IF matched # <<>> THEN matched[1] ELSE "Others"

\* mutant: the table as declared is consulted, whatever was added since
MapCategoryIn_Declared(table, text, m) ==
    FirstMatched(MatchedCategories(DefaultKeywords, TextToCheck(text, m)))
MapCategoryIn(table, text, m) == FirstMatched(MatchedCategories(table, TextToCheck(text, m)))
map_category(text, m) == MapCategoryIn(CATEGORY_KEYWORDS, text, m)

\* list(CATEGORY_KEYWORDS.keys()) + ["Others"]
get_all_categories == Categories(CATEGORY_KEYWORDS) \o <<"Others">>

\* if category not in CATEGORY_KEYWORDS: CATEGORY_KEYWORDS[category] = []
EnsureCategory(table, category) ==
    IF HasCategory(table, category) THEN table
    ELSE Append(table, [category |-> category, keywords |-> <<>>])
\* mutant: the new keywords are put in front of the list
ExtendKeywords_Prepend(table, category, keywords) ==
    [k \in 1..Len(table) |->
       IF table[k].category = category
       THEN [table[k] EXCEPT !.keywords = keywords \o @]
       ELSE table[k]]
\* CATEGORY_KEYWORDS[category].extend(keywords)
ExtendKeywords(table, category, keywords) ==
    [k \in 1..Len(table) |->
       IF table[k].category = category
       THEN [table[k] EXCEPT !.keywords = @ \o keywords]
       ELSE table[k]]
\* the table after add_category_keywords(category, keywords)
AddedKeywords(table, category, keywords) ==
    ExtendKeywords(EnsureCategory(table, category), category, keywords)

\* upi.py, analyze_upi_messages: the Transaction rows built from the parsed
\* transactions, each with the category map_category gives it
Transaction(parsed) ==
    [raw_text |-> parsed.raw_text, merchant |-> parsed.merchant, amount |-> parsed.amount,
     category |-> map_category(parsed.raw_text, Some(parsed.merchant)),
     timestamp |-> parsed.timestamp]
\* mutant: the rows are built from the last parsed transaction to the first
Transactions_Reversed(parsed_transactions) ==
    [k \in 1..Len(parsed_transactions) |->
       Transaction(parsed_transactions[Len(parsed_transactions) + 1 - k])]
Transactions(parsed_transactions) ==
    [k \in 1..Len(parsed_transactions) |-> Transaction(parsed_transactions[k])]
db_transactions(text, pad) == Transactions(parse_messages(text, pad))

\* models.py, class Transaction: the columns of the table.  A field whose
\* type is not Optional and that has no default is a NOT NULL column, and
\* a field with a default or a default factory is filled in when the
\* constructor is not given it.
TransactionColumns == <<
    [name |-> "id",         nullable |-> FALSE, default |-> TRUE],
    [name |-> "user_id",    nullable |-> FALSE, default |-> FALSE],
    [name |-> "raw_text",   nullable |-> FALSE, default |-> FALSE],
    [name |-> "merchant",   nullable |-> TRUE,  default |-> TRUE],
    [name |-> "amount",     nullable |-> FALSE, default |-> FALSE],
    [name |-> "category",   nullable |-> FALSE, default |-> TRUE],
    [name |-> "timestamp",  nullable |-> TRUE,  default |-> TRUE],
    [name |-> "created_at", nullable |-> FALSE, default |-> TRUE] >>
\* the row is inserted with NULL in this column
NullIn(row, column) ==
    IF column.name \in DOMAIN row THEN row[column.name] = None ELSE ~column.default
\* session.commit(): the INSERT of a row with NULL in a NOT NULL column
\* raises IntegrityError, and nothing of the transaction is kept
CanCommit(rows) ==
    \A k \in 1..Len(rows) : \A c \in 1..Len(TransactionColumns) :
       TransactionColumns[c].nullable \/ ~NullIn(rows[k], TransactionColumns[c])

\* summary_builder.py, build_summary: amounts are in hundredths, so the
\* sums are exact and round(x, 2) leaves them as they are
RECURSIVE SumAmounts(_)
SumAmounts(rows) == IF rows = <<>> THEN 0 ELSE Head(rows).amount + SumAmounts(Tail(rows))
\* category_totals, a dict: one entry per category, in order of first
\* occurrence, with the sum of the category's amounts
CategoryTotals(rows) ==
    LET firsts == SelectSeq([k \in 1..Len(rows) |-> k],
                            LAMBDA k : \A j \in 1..(k - 1) : rows[j].category # rows[k].category)
    IN  [n \in 1..Len(firsts) |->
           [category |-> rows[firsts[n]].category,
            total |-> SumAmounts(SelectSeq(rows,
                         LAMBDA t : t.category = rows[firsts[n]].category))]]
\* max(category_totals.items(), key=lambda x: x[1])[0]: the first maximum
TopCategory(totals) ==
    IF totals = <<>> THEN None
    ELSE Some(totals[CHOOSE n \in 1..Len(totals) :
                       /\ \A j \in 1..Len(totals) : totals[j].total <= totals[n].total
                       /\ \A j \in 1..(n - 1) : totals[j].total < totals[n].total].category)
build_summary(rows) ==
    [summary |-> [total_spend |-> SumAmounts(rows), transaction_count |-> Len(rows),
                  top_category |-> TopCategory(CategoryTotals(rows))],
     categories |-> CategoryTotals(rows)]

\* upi.py, analyze_upi_messages, from the rows built of the parsed
\* transactions on: the early return when there are none; else add, commit
\* and the response with the summary; and on any exception the rollback and
\* HTTPException(500).  result is the rows as built, persisted the rows the
\* database holds afterwards.
analyze_upi_messages(rows) ==
    IF rows # <<>> /\ ~CanCommit(rows)
    THEN [op |-> "analyze_upi_messages", result |-> rows, status |-> 500,
          persisted |-> <<>>, response |-> [detail |-> "Failed to analyze messages"]]
    ELSE [op |-> "analyze_upi_messages", result |-> rows, status |-> 200,
          persisted |-> rows,
          response |-> [summary |-> build_summary(rows).summary,
                        categories |-> build_summary(rows).categories,
                        transactions |-> rows]]

(***************************************************************************)
(* The inputs.  A raw text is up to MaxPieces pieces joined by separators; *)
(* the pieces are messages with and without an amount, long and short,     *)
(* blank, and one that packs two messages around a pipe.  The table is     *)
(* extended at most MaxAdds times, with a category it has, a new one, or   *)
(* one named like the fallback label.                                      *)
(***************************************************************************)
MaxPieces == 2
MaxAdds == 2

Pieces == { "Rs. 249.00 paid to Zomato on 20-11-2025",
            "Rs. 500",
            "random text, no amount",
            "",
            "Rs. 30 at KFC.| INR 0 at Uber." }
Separators == { "\n", ";", "\r\n \r\n" }

RECURSIVE TextsOf(_)
TextsOf(n) ==
    IF n = 1 THEN Pieces
    ELSE {t \o sep \o p : t \in TextsOf(n - 1), sep \in Separators, p \in Pieces}
RawTexts == UNION {TextsOf(n) : n \in 1..MaxPieces}

CategoryTexts == { "Rs. 249.00 paid to Zomato on 20-11-2025",
                   "NETFLIX Recharge",
                   "Rs. 500 debited",
                   "paid to tata",
                   "dog walker",
                   "" }
Merchants == { None, Some("Unknown"), Some(""), Some("Zomato"), Some("Sky Tv") }
AddCategories == { "Bills", "Pets", "Others" }
AddKeywordLists == { <<"dog">>, <<"Debited", "walk">> }

NoCall == [op |-> "none"]
Idle == [pc |-> "idle"]

(***************************************************************************)
(* Spec: the parser and the ingestion pipeline, one call on one raw text.  *)
(* The functions keep no state, so a behaviour is one call.                *)
(***************************************************************************)
Init ==
    /\ CATEGORY_KEYWORDS = DefaultKeywords
    /\ raw_text \in RawTexts
    /\ merchant = None
    /\ pads_year = FALSE
    /\ adds = 0
    /\ call = NoCall
    /\ reader = Idle
    /\ writer = Idle

ParseMessages ==
    /\ call.op = "none"
    /\ call' = [op |-> "parse_messages", result |-> parse_messages(raw_text, pads_year)]
    /\ UNCHANGED <<CATEGORY_KEYWORDS, raw_text, merchant, pads_year, adds, reader, writer>>

ParseMessageLine ==
    /\ call.op = "none"
    /\ call' = [op |-> "parse_message_line",
                result |-> parse_message_line(raw_text, pads_year)]
    /\ UNCHANGED <<CATEGORY_KEYWORDS, raw_text, merchant, pads_year, adds, reader, writer>>

AnalyzeUpiMessages ==
    /\ call.op = "none"
    /\ call' = analyze_upi_messages(db_transactions(raw_text, pads_year))
    /\ UNCHANGED <<CATEGORY_KEYWORDS, raw_text, merchant, pads_year, adds, reader, writer>>

Next == ParseMessages \/ ParseMessageLine \/ AnalyzeUpiMessages

Spec == Init /\ [][Next]_vars

(***************************************************************************)
(* SpecCategory: the category table and its two entry points, called in    *)
(* any order on a text and a merchant.                                     *)
(***************************************************************************)
InitCategory ==
    /\ CATEGORY_KEYWORDS = DefaultKeywords
    /\ raw_text \in CategoryTexts
    /\ merchant \in Merchants
    /\ pads_year = FALSE
    /\ adds = 0
    /\ call = NoCall
    /\ reader = Idle
    /\ writer = Idle

MapCategory ==
    /\ call' = [op |-> "map_category", result |-> map_category(raw_text, merchant)]
    /\ UNCHANGED <<CATEGORY_KEYWORDS, raw_text, merchant, pads_year, adds, reader, writer>>

AddCategoryKeywords(category, keywords) ==
    /\ adds < MaxAdds
    /\ CATEGORY_KEYWORDS' = AddedKeywords(CATEGORY_KEYWORDS, category, keywords)
    /\ adds' = adds + 1
    /\ call' = [op |-> "add_category_keywords", category |-> category,
                keywords |-> keywords]
    /\ UNCHANGED <<raw_text, merchant, pads_year, reader, writer>>

GetAllCategories ==
    /\ call' = [op |-> "get_all_categories", result |-> get_all_categories]
    /\ UNCHANGED <<CATEGORY_KEYWORDS, raw_text, merchant, pads_year, adds, reader, writer>>

NextCategory ==
    \/ MapCategory
    \/ GetAllCategories
    \/ \E category \in AddCategories, keywords \in AddKeywordLists :
          AddCategoryKeywords(category, keywords)

SpecCategory == InitCategory /\ [][NextCategory]_vars

(***************************************************************************)
(* SpecConcurrent: one map_category call and one add_category_keywords     *)
(* call at a time, each in its own thread of a concurrent host.  A thread  *)
(* switch may fall between any two statements.  One step of the reader is  *)
(* a next() of the iterator over CATEGORY_KEYWORDS.items() or the scan of  *)
(* one category's keyword list; one step of the writer is one of its two   *)
(* statements (list.extend is a single call into the interpreter).  The    *)
(* scan reads the list as it is: extend being one step, a scan that a      *)
(* switch interrupts finds what one taken after the extend finds.          *)
(***************************************************************************)
ConcurrentTexts == { "dog walker", "NETFLIX Recharge", "nothing here" }

InitConcurrent ==
    /\ CATEGORY_KEYWORDS = DefaultKeywords
    /\ raw_text \in ConcurrentTexts
    /\ merchant = None
    /\ pads_year = FALSE
    /\ adds = 0
    /\ call = NoCall
    /\ reader = Idle
    /\ writer = Idle

\* map_category is entered: text_to_check, matched_categories = [], and the
\* iterator over the items, which remembers the size of the dict
ReaderCall ==
    /\ reader.pc = "idle"
    /\ reader' = [pc |-> "items", text_to_check |-> TextToCheck(raw_text, merchant),
                  matched_categories |-> <<>>, size |-> Len(CATEGORY_KEYWORDS),
                  pos |-> 0]
    /\ UNCHANGED <<CATEGORY_KEYWORDS, raw_text, merchant, pads_year, adds, call, writer>>

\* next() of the items iterator finds the dict changed in size: RuntimeError
\* ("dictionary changed size during iteration") leaves map_category
ReaderRaise ==
    /\ reader.pc = "items"
    /\ Len(CATEGORY_KEYWORDS) # reader.size
    /\ call' = [op |-> "map_category", error |-> "RuntimeError"]
    /\ reader' = Idle
    /\ UNCHANGED <<CATEGORY_KEYWORDS, raw_text, merchant, pads_year, adds, writer>>

\* next() yields the next category and a reference to its keyword list
ReaderNext ==
    /\ reader.pc = "items"
    /\ Len(CATEGORY_KEYWORDS) = reader.size
    /\ reader.pos < reader.size
    /\ reader' = [reader EXCEPT !.pc = "keywords", !.pos = @ + 1]
    /\ UNCHANGED <<CATEGORY_KEYWORDS, raw_text, merchant, pads_year, adds, call, writer>>

\* for keyword in keywords: ... append the category and break on a hit
ReaderScan ==
    /\ reader.pc = "keywords"
    /\ reader' = [reader EXCEPT
          !.pc = "items",
          !.matched_categories =
              IF KeywordHit(CATEGORY_KEYWORDS[reader.pos].keywords, reader.text_to_check)
              THEN Append(@, CATEGORY_KEYWORDS[reader.pos].category)
              ELSE @]
    /\ UNCHANGED <<CATEGORY_KEYWORDS, raw_text, merchant, pads_year, adds, call, writer>>

\* the iterator is exhausted: return the first matched category or "Others"
ReaderReturn ==
    /\ reader.pc = "items"
    /\ Len(CATEGORY_KEYWORDS) = reader.size
    /\ reader.pos = reader.size
    /\ call' = [op |-> "map_category", result |-> FirstMatched(reader.matched_categories)]
    /\ reader' = Idle
    /\ UNCHANGED <<CATEGORY_KEYWORDS, raw_text, merchant, pads_year, adds, writer>>

\* add_category_keywords is entered and its first statement run: the category
\* is created with an empty list when the table does not have it
WriterEnsure(category, keywords) ==
    /\ writer.pc = "idle"
    /\ adds < MaxAdds
    /\ CATEGORY_KEYWORDS' = EnsureCategory(CATEGORY_KEYWORDS, category)
    /\ writer' = [pc |-> "extend", category |-> category, keywords |-> keywords,
                  created |-> ~HasCategory(CATEGORY_KEYWORDS, category)]
    /\ UNCHANGED <<raw_text, merchant, pads_year, adds, call, reader>>

\* its second statement: CATEGORY_KEYWORDS[category].extend(keywords)
WriterExtend ==
    /\ writer.pc = "extend"
    /\ CATEGORY_KEYWORDS' = ExtendKeywords(CATEGORY_KEYWORDS, writer.category, writer.keywords)
    /\ adds' = adds + 1
    /\ writer' = Idle
    /\ UNCHANGED <<raw_text, merchant, pads_year, call, reader>>

NextConcurrent ==
    \/ ReaderCall \/ ReaderRaise \/ ReaderNext \/ ReaderScan \/ ReaderReturn
    \/ \E category \in AddCategories, keywords \in AddKeywordLists :
          WriterEnsure(category, keywords)
    \/ WriterExtend

SpecConcurrent == InitConcurrent /\ [][NextConcurrent]_vars

(***************************************************************************)
(* SpecExtract: the three extractors, the line parser and the pipeline,    *)
(* one call on one message.  The messages are those of the test suite and  *)
(* of the documented examples, and around them dates that are no calendar  *)
(* dates, a four-digit year after a month name, a year below 1000, amounts *)
(* that two patterns capture differently, a stop word where the merchant   *)
(* stands, and runs of blanks and tabs inside a line.  The C library that  *)
(* writes %Y pads the year or does not.                                    *)
(***************************************************************************)
Messages == { "Rs. 249.00 paid to Zomato on 20-11-2025. UPI Ref: 12345",
              "Rs. 249.00 paid to Zomato on 20-11-2025. UPI Ref: 12345\nINR 219 paid to OLA CABS on 20-11-2025.\nPayment of ₹1,299 to Amazon was successful on 19/11/2025",
              "INR 499.00 paid to Netflix. Next billing date 01-12-2025",
              "Rs. 500 debited from your account on 20-11-2025",
              "Rs. 500 paid on 31-02-2025",
              "Rs. 500 paid on 29-Feb-2025",
              "Rs. 40 paid to UPI on 2025-02-30",
              "Rs. 99 on 01-01-0999",
              "Rs. 0 paid to Uber on 05Nov25",
              "Paid 75 for Rs. 80 cashback",
              "Rs. 249.00 \t paid  to Zomato",
              "This is just a regular message",
              "  No transaction here ",
              "Rs. 1,234.56",
              "₹1,299",
              "INR 219.00",
              "20-11-2025",
              "19/11/2025",
              "2025-11-20",
              "05Nov25",
              "05-Nov-25",
              "05-Nov-2025",
              "20 Nov 2025",
              "Nov 20, 2025",
              "05Nov2025",
              "31-02-2025 or 01 Mar 2025",
              "31-02-2025 then 01-03-2025",
              "Rs. 75 paid to UPI on Monday at Big Bazaar.",
              "Rs. 60 to AB on Monday at KFC.",
              "1234.56",
              "1,234",
              "INR 500",
              "abc",
              "Page 1\n\n\n\nUPI 100.00",
              "Page 1\n \n \nUPI 100.00",
              "Page 1\n\t\n\t\n\t\nUPI 100.00",
              "Page 1\r\n\r\n\r\nUPI 100.00 ",
              "Dr  500.00\t\tCr \n\n NEFT" }
      \cup { "05Nov" \o ZeroPad(str(yy), 2) : yy \in 0..99 }
      \cup { "05-Nov-" \o ZeroPad(str(yy), 2) : yy \in 0..99 }

InitExtract ==
    /\ CATEGORY_KEYWORDS = DefaultKeywords
    /\ raw_text \in Messages
    /\ merchant = None
    /\ pads_year \in BOOLEAN
    /\ adds = 0
    /\ call = NoCall
    /\ reader = Idle
    /\ writer = Idle

ExtractAmount ==
    /\ call.op = "none"
    /\ call' = [op |-> "extract_amount", result |-> extract_amount(raw_text)]
    /\ UNCHANGED <<CATEGORY_KEYWORDS, raw_text, merchant, pads_year, adds, reader, writer>>

ExtractMerchant ==
    /\ call.op = "none"
    /\ call' = [op |-> "extract_merchant", result |-> extract_merchant(raw_text)]
    /\ UNCHANGED <<CATEGORY_KEYWORDS, raw_text, merchant, pads_year, adds, reader, writer>>

ExtractDate ==
    /\ call.op = "none"
    /\ call' = [op |-> "extract_date", result |-> extract_date(raw_text, pads_year)]
    /\ UNCHANGED <<CATEGORY_KEYWORDS, raw_text, merchant, pads_year, adds, reader, writer>>

(***************************************************************************)
(* statement_cleaner.py                                                    *)
(***************************************************************************)
\* StatementCleaner.clean_text: line endings become "\n", every run of
\* spaces and tabs one space, every run of three or more "\n" two, and then
\* each line of the text is stripped and the lines are joined again
clean_text(raw) ==
    IF raw = "" THEN ""
    ELSE LET text == NormalizeLineEndings(raw)
             Blank == {" ", "\t"}
             spaced == Join([i \in 1..Len(text) |->
                               IF CharAt(text, i) \notin Blank THEN CharAt(text, i)
                               ELSE IF i > 1 /\ CharAt(text, i - 1) \in Blank THEN ""
                               ELSE " "])
             broken == Join([i \in 1..Len(spaced) |->
                               IF CharAt(spaced, i) # "\n" THEN CharAt(spaced, i)
                               ELSE IF i > 2 /\ CharAt(spaced, i - 1) = "\n"
                                             /\ CharAt(spaced, i - 2) = "\n" THEN ""
                               ELSE "\n"])
             lines == split(broken, "\n")
         IN Join([k \in 1..Len(lines) |->
                    (IF k > 1 THEN "\n" ELSE "") \o strip(lines[k])])

\* StatementCleaner.normalize_amount, in hundredths: the characters of the
\* class [Rs.,₹\s] are removed one by one and float() reads the rest;
\* ValueError gives 0.0
normalize_amount(amount_str) ==
    LET Removed == {"R", "s", ".", ",", "₹"} \cup Space
        cleaned == Join([i \in 1..Len(amount_str) |->
                           IF CharAt(amount_str, i) \in Removed THEN ""
                           ELSE CharAt(amount_str, i)])
    IN IF float(cleaned) # None THEN float(cleaned)[1] ELSE 0

CleanText ==
    /\ call.op = "none"
    /\ call' = [op |-> "clean_text", result |-> clean_text(raw_text)]
    /\ UNCHANGED <<CATEGORY_KEYWORDS, raw_text, merchant, pads_year, adds, reader, writer>>

NormalizeAmount ==
    /\ call.op = "none"
    /\ call' = [op |-> "normalize_amount", result |-> normalize_amount(raw_text)]
    /\ UNCHANGED <<CATEGORY_KEYWORDS, raw_text, merchant, pads_year, adds, reader, writer>>

ExtractTransactionDetails ==
    /\ call.op = "none"
    /\ call' = [op |-> "extract_transaction_details",
                result |-> extract_transaction_details(raw_text, pads_year)]
    /\ UNCHANGED <<CATEGORY_KEYWORDS, raw_text, merchant, pads_year, adds, reader, writer>>

NextExtract ==
    \/ ExtractAmount \/ ExtractMerchant \/ ExtractDate \/ ExtractTransactionDetails
    \/ ParseMessageLine \/ ParseMessages \/ AnalyzeUpiMessages
    \/ CleanText \/ NormalizeAmount

SpecExtract == InitExtract /\ [][NextExtract]_vars

(***************************************************************************)
(* The properties.  They are stated on the input text itself: its lines,   *)
(* the segments a line falls into, and what each segment yields alone.     *)
(***************************************************************************)
\* the text with every "\r\n" and every lone "\r" read as one line break
LineBreaksOf(raw) ==
    Join([i \in 1..Len(raw) |->
            IF CharAt(raw, i) # "\r" THEN CharAt(raw, i)
            ELSE IF i < Len(raw) /\ CharAt(raw, i + 1) = "\n" THEN "" ELSE "\n"])
SourceLines(raw) == split(LineBreaksOf(raw), "\n")
AllSpace(s) == \A i \in 1..Len(s) : CharAt(s, i) \in Space
SingleLine(raw) == ~Contains(raw, "\n") /\ ~Contains(raw, "\r")

\* the trimmed segments of one line: its sub-lines around ';' when it has one,
\* else around '|' when it has one, else the line itself
SegmentsOf(line) ==
    LET parts == IF Contains(line, ";") THEN split(line, ";")
                 ELSE IF Contains(line, "|") THEN split(line, "|")
                 ELSE <<line>>
    IN  [k \in 1..Len(parts) |-> strip(parts[k])]
RECURSIVE Flatten(_, _)
Flatten(seqs, k) == IF k > Len(seqs) THEN <<>> ELSE seqs[k] \o Flatten(seqs, k + 1)
\* the candidate segments of a text: top to bottom, left to right
SegmentsOfLines(lines) == Flatten([k \in 1..Len(lines) |-> SegmentsOf(lines[k])], 1)
Candidates(raw) == SegmentsOfLines(SourceLines(raw))

\* the segments that yield a record, and the place of one among them
Yielding(cands, pad) ==
    {j \in 1..Len(cands) : Len(cands[j]) >= 10 /\ parse_message_line(cands[j], pad) # None}
Rank(yielding, j) == Cardinality({i \in yielding : i <= j})
EmitsInOrder(result, cands, yielding, pad) ==
    /\ Len(result) = Cardinality(yielding)
    /\ \A j \in yielding :
          result[Rank(yielding, j)] = parse_message_line(cands[j], pad)[1]

NoValidAmount(amount) == amount = None \/ amount[1] <= 0
HasValidAmount(s) == ~NoValidAmount(extract_amount(normalize_text(s)))

\* C1: every record parse_message_line or parse_messages returns has an
\* amount above zero; when extract_amount finds nothing or a value <= 0 in
\* the normalized line, parse_message_line returns null, and every record of
\* parse_messages carries the positive amount extracted from its own line.
C1_PositiveAmount ==
    /\ call.op = "parse_message_line" =>
          /\ call.result # None => call.result[1].amount > 0
          /\ NoValidAmount(extract_amount(normalize_text(raw_text))) => call.result = None
    /\ call.op \in {"parse_messages", "analyze_upi_messages"} =>
          \A k \in 1..Len(call.result) :
             /\ call.result[k].amount > 0
             /\ extract_amount(call.result[k].raw_text) = Some(call.result[k].amount)
\* a text with a zero-amount segment of full length next to a valid one:
\* one record comes out
C1_Witness ==
    /\ call.op = "parse_messages"
    /\ Len(call.result) = 1
    /\ \E s \in {Candidates(raw_text)[j] : j \in 1..Len(Candidates(raw_text))} :
          Len(s) >= 10 /\ extract_amount(normalize_text(s)) = Some(0)

\* C2: parse_messages returns the records of the candidate segments in input
\* order (lines top to bottom, sub-lines left to right): each yielding
\* segment gives exactly one record, at the place its rank among the
\* yielding segments gives it.
C2_InputOrder ==
    call.op = "parse_messages" =>
       EmitsInOrder(call.result, Candidates(raw_text),
                    Yielding(Candidates(raw_text), pads_year), pads_year)
\* two different records around a segment that yields nothing
C2_Witness ==
    /\ call.op = "parse_messages"
    /\ Len(call.result) = 2
    /\ call.result[1] # call.result[2]
    /\ Len(Candidates(raw_text)) = 3

\* C3: a line or sub-line of fewer than 10 characters once trimmed yields no
\* record, valid amount or not: there are no more records than segments of
\* at least 10 characters, and every record is the normalized text of one.
C3_ShortSegmentsDropped ==
    call.op = "parse_messages" =>
       /\ Len(call.result) <=
             Cardinality({j \in 1..Len(Candidates(raw_text)) :
                             Len(Candidates(raw_text)[j]) >= 10})
       /\ \A k \in 1..Len(call.result) :
             \E j \in 1..Len(Candidates(raw_text)) :
                /\ Len(Candidates(raw_text)[j]) >= 10
                /\ call.result[k].raw_text = normalize_text(Candidates(raw_text)[j])
\* a short segment with a valid amount is dropped beside one that is kept
C3_Witness ==
    /\ call.op = "parse_messages"
    /\ Len(call.result) = 1
    /\ \E j \in 1..Len(Candidates(raw_text)) :
          /\ Len(Candidates(raw_text)[j]) < 10
          /\ HasValidAmount(Candidates(raw_text)[j])

\* C4: a line with ';' or '|' is split on ';' when it has one and on '|'
\* otherwise, and each sub-line of at least 10 characters is parsed on its
\* own; with both delimiters present the pipes stay inside the sub-lines.
C4_DelimiterChoice ==
    (call.op = "parse_messages" /\ SingleLine(raw_text) /\ Len(strip(raw_text)) >= 10) =>
       /\ Contains(raw_text, ";") =>
             /\ EmitsInOrder(call.result, split(strip(raw_text), ";"),
                             Yielding(split(strip(raw_text), ";"), pads_year), pads_year)
             /\ \A k \in 1..Len(call.result) : ~Contains(call.result[k].raw_text, ";")
       /\ (~Contains(raw_text, ";") /\ Contains(raw_text, "|")) =>
             /\ EmitsInOrder(call.result, split(strip(raw_text), "|"),
                             Yielding(split(strip(raw_text), "|"), pads_year), pads_year)
             /\ \A k \in 1..Len(call.result) : ~Contains(call.result[k].raw_text, "|")
\* both delimiters in one line: the record of a sub-line keeps its pipe
C4_Witness ==
    /\ call.op = "parse_messages"
    /\ SingleLine(raw_text)
    /\ Contains(raw_text, ";") /\ Contains(raw_text, "|")
    /\ \E k \in 1..Len(call.result) : Contains(call.result[k].raw_text, "|")

\* one line with exactly one ';', and the text on either side of it
OneSemicolon(raw) ==
    /\ SingleLine(raw)
    /\ Contains(raw, ";")
    /\ ~Contains(SubSeq(raw, find(raw, ";") + 1, Len(raw)), ";")
LeftOf(raw) == SubSeq(raw, 1, find(raw, ";") - 1)
RightOf(raw) == SubSeq(raw, find(raw, ";") + 1, Len(raw))
TwoValidAmounts(raw) ==
    OneSemicolon(raw) /\ HasValidAmount(LeftOf(raw)) /\ HasValidAmount(RightOf(raw))
TwoFullSubLines(raw) == Len(strip(LeftOf(raw))) >= 10 /\ Len(strip(RightOf(raw))) >= 10

\* C5, as the claim states it: a line holding two transactions around one
\* ';', both with valid amounts, gives exactly two transactions.
C5_TwoPerSemicolonLine ==
    (call.op \in {"parse_messages", "analyze_upi_messages"} /\ TwoValidAmounts(raw_text)) =>
       Len(call.result) = 2

\* C5: a line holding two transactions around one ';', both with valid
\* amounts and both at least 10 characters long once trimmed, gives exactly
\* two transactions, first the left one, each parsed -- and in the pipeline
\* categorized -- as its sub-line is on its own.
C5_TwoFullSubLines ==
    (TwoValidAmounts(raw_text) /\ TwoFullSubLines(raw_text)) =>
       /\ call.op = "parse_messages" =>
             call.result = << parse_message_line(strip(LeftOf(raw_text)), pads_year)[1],
                              parse_message_line(strip(RightOf(raw_text)), pads_year)[1] >>
       /\ call.op = "analyze_upi_messages" =>
             call.result =
                << Transaction(parse_message_line(strip(LeftOf(raw_text)), pads_year)[1]),
                   Transaction(parse_message_line(strip(RightOf(raw_text)), pads_year)[1]) >>
\* the pipeline has stored both transactions of such a line
C5_Witness ==
    /\ call.op = "analyze_upi_messages"
    /\ TwoValidAmounts(raw_text) /\ TwoFullSubLines(raw_text)
    /\ Len(call.result) = 2
    /\ call.result[1].category # "Others"

\* the text without its lines of white space only
RECURSIVE JoinLines(_, _)
JoinLines(lines, k) ==
    IF k > Len(lines) THEN ""
    ELSE IF k = Len(lines) THEN lines[k]
    ELSE lines[k] \o "\n" \o JoinLines(lines, k + 1)
WithoutBlankLines(raw) ==
    JoinLines(SelectSeq(SourceLines(raw), LAMBDA line : ~AllSpace(line)), 1)
BlankLineBetween(lines) ==
    \E i, j, k \in 1..Len(lines) :
       /\ i < j /\ j < k
       /\ ~AllSpace(lines[i]) /\ AllSpace(lines[j]) /\ ~AllSpace(lines[k])

\* C6: parse_messages returns the empty list for an empty text and for a
\* text of blank lines only, and blank lines between or after messages are
\* skipped: the result is that of the text without them.
C6_BlankLinesIgnored ==
    call.op = "parse_messages" =>
       /\ AllSpace(raw_text) => call.result = <<>>
       /\ call.result = parse_messages(WithoutBlankLines(raw_text), pads_year)
\* records on both sides of a blank line
C6_Witness ==
    /\ call.op = "parse_messages"
    /\ BlankLineBetween(SourceLines(raw_text))
    /\ Len(call.result) = 2

\* two characters that differ at most in case
SameLetter(a, b) ==
    \/ a = b
    \/ a \in Upper /\ LowerTable[a] = b
    \/ b \in Upper /\ LowerTable[b] = a
\* keyword is a substring of text, case ignored
OccursIn(keyword, text) ==
    \E i \in 1..(Len(text) - Len(keyword) + 1) :
       \A j \in 1..Len(keyword) : SameLetter(CharAt(keyword, j), CharAt(text, i + j - 1))
\* the combined search string: the text, and the merchant when there is one
\* and it is not the sentinel
Combined(text, m) ==
    IF m # None /\ m[1] # "" /\ m[1] # "Unknown" THEN text \o " " \o m[1] ELSE text
\* the places in the table of the categories with a keyword in the string
Matching(table, s) ==
    {k \in 1..Len(table) :
        \E n \in 1..Len(table[k].keywords) : OccursIn(table[k].keywords[n], s)}
Earliest(matching) == CHOOSE k \in matching : \A j \in matching : k <= j
DeclaredOrder ==
    <<"Food", "Travel", "Bills", "Shopping", "Groceries", "Entertainment", "Education",
      "Health">>
ClosedEnumeration == {DeclaredOrder[k] : k \in 1..Len(DeclaredOrder)} \cup {"Others"}

NoneOrOthersFirst(table, matching) ==
    matching = {} \/ table[Earliest(matching)].category = "Others"
IsPrefix(s, u) == Len(s) <= Len(u) /\ SubSeq(u, 1, Len(s)) = s
KeywordsAt(table, k) == IF k <= Len(table) THEN table[k].keywords ELSE <<>>
\* C10: the table keeps its declared order and grows only at its ends: the
\* first eight categories are always Food .. Health in that order, a step
\* leaves every category where it was with its keywords where they were, and
\* an add_category_keywords call puts its keywords after the ones the
\* category had.
C10_DeclaredOrderAdditive ==
    /\ [](SubSeq(Categories(CATEGORY_KEYWORDS), 1, Len(DeclaredOrder)) = DeclaredOrder)
    /\ [][ /\ Len(CATEGORY_KEYWORDS') >= Len(CATEGORY_KEYWORDS)
           /\ \A k \in 1..Len(CATEGORY_KEYWORDS) :
                 /\ CATEGORY_KEYWORDS'[k].category = CATEGORY_KEYWORDS[k].category
                 /\ IsPrefix(CATEGORY_KEYWORDS[k].keywords, CATEGORY_KEYWORDS'[k].keywords)
           /\ call'.op = "add_category_keywords" =>
                 \E k \in 1..Len(CATEGORY_KEYWORDS') :
                    /\ CATEGORY_KEYWORDS'[k].category = call'.category
                    /\ CATEGORY_KEYWORDS'[k].keywords =
                          KeywordsAt(CATEGORY_KEYWORDS, k) \o call'.keywords ]_vars
\* Bills has been given keywords twice
C10_Witness ==
    /\ call.op = "add_category_keywords"
    /\ call.category = "Bills"
    /\ adds = 2
    /\ Len(CATEGORY_KEYWORDS) = Len(DeclaredOrder)
    /\ Len(CATEGORY_KEYWORDS[3].keywords) > Len(DefaultKeywords[3].keywords) + 1

\* the entry at place k is what the table held before the add_category_keywords
\* call under way, or what it holds after it
SettledEntry(k) ==
    \/ writer.pc = "idle"
    \/ ~(writer.created /\ CATEGORY_KEYWORDS[k].category = writer.category)
    \/ CATEGORY_KEYWORDS[k] =
          ExtendKeywords(CATEGORY_KEYWORDS, writer.category, writer.keywords)[k]

\* C11: a map_category call that runs while add_category_keywords does never
\* reads a partially updated table: each category whose keywords it scans is
\* as it was before the call (there with its old list) or as it is after it
\* (with all the new keywords), never a category just created whose list is
\* still empty.
C11_NoPartialTable ==
    [][(reader.pc = "keywords" /\ reader'.pc = "items") => SettledEntry(reader.pos)]_vars

\* C12: a map_category call whose iteration interleaves with
\* add_category_keywords never ends in an error: whenever it has ended, it
\* has returned a label.
C12_NeverFails ==
    call.op = "map_category" => "result" \in DOMAIN call

\* the label a table gives a search string: the first category, in table
\* order, with a keyword in it
LabelOf(table, s) ==
    IF Matching(table, s) = {} THEN "Others"
    ELSE table[Earliest(Matching(table, s))].category

\* C13, as the claim states it: the result of map_category depends on its
\* arguments only, not on what ran before: the call returns what the same
\* call returns at start, on the table as declared.
C13_ArgumentsOnly ==
    call.op = "map_category" =>
       call.result = MapCategoryIn(DefaultKeywords, raw_text, merchant)

\* C13: map_category is deterministic and leaves the table alone: its result
\* is a function of its arguments and of the table's contents at the call,
\* so two calls with the same arguments and no add_category_keywords call in
\* between return the same category.
C13_ArgumentsAndTable ==
    /\ [](call.op = "map_category" =>
             call.result = LabelOf(CATEGORY_KEYWORDS, Combined(raw_text, merchant)))
    /\ [][call'.op = "map_category" =>
             /\ CATEGORY_KEYWORDS' = CATEGORY_KEYWORDS
             /\ call.op = "map_category" => call'.result = call.result]_vars
\* the same call returns another category after an add_category_keywords call
C13_Witness ==
    /\ call.op = "map_category"
    /\ adds > 0
    /\ call.result # MapCategoryIn(DefaultKeywords, raw_text, merchant)

(***************************************************************************)
(* The properties of the extractors and of the records they feed.          *)
(***************************************************************************)
\* the records a call emitted: those of parse_messages and of the pipeline,
\* and the one of parse_message_line when it returned one
Emitted ==
    IF call.op \in {"parse_message_line", "parse_messages", "analyze_upi_messages"}
    THEN call.result ELSE <<>>
\* the line that parse_message_line reads the fields from
Normalized == normalize_text(raw_text)
NoMerchantFound(line) == extract_merchant(line) = None

\* C14: every emitted record has a merchant that is a non-empty string; a
\* record of a line in which extract_merchant finds nothing has the merchant
\* "Unknown"; and a line with a valid amount in which extract_merchant finds
\* nothing is emitted all the same.
C14_MerchantSentinel ==
    /\ \A k \in 1..Len(Emitted) :
          /\ Emitted[k].merchant \in STRING
          /\ Emitted[k].merchant # ""
          /\ NoMerchantFound(Emitted[k].raw_text) => Emitted[k].merchant = "Unknown"
    /\ (call.op = "parse_message_line" /\ HasValidAmount(Normalized)
            /\ NoMerchantFound(Normalized))
         => (call.result # None /\ call.result[1].merchant = "Unknown")
C14_Witness ==
    /\ call.op = "parse_message_line"
    /\ raw_text = "Rs. 500 debited from your account on 20-11-2025"
    /\ NoMerchantFound(Normalized)
    /\ call.result # None
    /\ call.result[1].amount = 50000
    /\ call.result[1].merchant = "Unknown"

(***************************************************************************)
(* The date a text writes, read off the text and not off the extractor: a  *)
(* date is written where one of the supported forms stands as a whole      *)
(* token, with no letter or digit before or after it.  Group 1 is the day, *)
(* 2 the month and 3 the year; a two-digit year up to 50 is of the 2000s   *)
(* and one above 50 of the 1900s.                                          *)
(***************************************************************************)
DAY == Grp(1, Rep(D, 1, 2))
MONTH == Grp(2, Rep(D, 1, 2))
MONTHNAME == Cat(<<Grp(2, MON), Star(Cls(Lower))>>)
YEAR4 == Grp(3, Rep(D, 4, 4))
YEAR == Grp(3, Alt(<<Rep(D, 4, 4), Rep(D, 2, 2)>>))
DateForms == <<
    \* DD-MM-YYYY, DD/MM/YYYY
    Cat(<<DAY, SEP, MONTH, SEP, YEAR4>>),
    \* YYYY-MM-DD
    Cat(<<YEAR4, SEP, MONTH, SEP, DAY>>),
    \* DDMonYY, DD-Mon-YY
    Cat(<<DAY, Opt(Lit("-")), Grp(2, MON), Opt(Lit("-")), YEAR>>),
    \* DD Mon YYYY
    Cat(<<DAY, Plus(S), MONTHNAME, Plus(S), YEAR4>>),
    \* Mon DD, YYYY
    Cat(<<MONTHNAME, Plus(S), DAY, Opt(Lit(",")), Plus(S), YEAR4>>) >>

LetterOrDigit(c) == c \in Upper \cup Lower \cup Digit
\* text[i..j-1] stands as a whole token
WholeToken(text, i, j) ==
    /\ i = 1 \/ ~LetterOrDigit(CharAt(text, i - 1))
    /\ j > Len(text) \/ ~LetterOrDigit(CharAt(text, j))
WrittenYear(digits) ==
    IF Len(digits) = 2 THEN (IF int(digits) <= 50 THEN 2000 ELSE 1900) + int(digits)
    ELSE int(digits)
WrittenMonth(field) == IF IsDigits(field) THEN int(field) ELSE MonthNumber(field)
\* the day, month and year of one match, as written
FieldsOf(text, caps) ==
    [year |-> WrittenYear(SubSeq(text, caps[3][1], caps[3][2])),
     month |-> WrittenMonth(SubSeq(text, caps[2][1], caps[2][2])),
     day |-> int(SubSeq(text, caps[1][1], caps[1][2]))]
\* the day-month-years of the matches rs that start at i and end a token
TokensAt(text, i, rs) ==
    { FieldsOf(text, rs[k][2]) : k \in { n \in 1..Len(rs) : WholeToken(text, i, rs[n][1]) } }
\* every day-month-year a form reads at a whole token of the text
DateTokens(text) ==
    UNION { TokensAt(text, i, Match(DateForms[f], TRUE, text, i, NoCaps)) :
            f \in 1..Len(DateForms), i \in 1..Len(text) }
IsCalendarDate(d) ==
    d.year >= 1 /\ d.month \in 1..12 /\ d.day \in 1..DaysInMonth(d.year, d.month)
\* the calendar dates the text writes
WrittenDates(text) == { d \in DateTokens(text) : IsCalendarDate(d) }
\* some date pattern of the extractor matches somewhere in the text
MatchesDatePattern(text) ==
    \E k \in 1..Len(DATE_PATTERNS) : search(DATE_PATTERNS[k].re, TRUE, text) # None

\* C15: a line with a valid amount in which a date pattern matches, but
\* which writes no calendar date, is emitted by parse_message_line, and
\* its record has no timestamp.
C15_NullTimestampForNonDate ==
    (call.op = "parse_message_line" /\ HasValidAmount(Normalized)
        /\ MatchesDatePattern(Normalized) /\ WrittenDates(Normalized) = {})
      => (call.result # None /\ call.result[1].timestamp = None)

\* the amount patterns that match somewhere in the text, by their place in
\* AMOUNT_PATTERNS
MatchingAmountPatterns(text) ==
    { k \in 1..Len(AMOUNT_PATTERNS) :
        search(AMOUNT_PATTERNS[k].re, AMOUNT_PATTERNS[k].ic, text) # None }
FirstOf(places) == CHOOSE k \in places : \A j \in places : k <= j
\* what pattern k captures in the text, commas removed
CapturedBy(text, k) ==
    replace(group(text, search(AMOUNT_PATTERNS[k].re, AMOUNT_PATTERNS[k].ic, text)[1], 1),
            ",", "")
\* the number a captured string writes, in hundredths
NumberOf(captured) == float(captured)

\* C16: extract_amount returns the number captured by the first pattern of
\* AMOUNT_PATTERNS, in declared order, that matches somewhere in the text,
\* commas removed, and "not found" exactly when no pattern matches; the
\* documented examples give 1234.56, 1299.0 and 219.0.
C16_FirstPatternWins ==
    call.op = "extract_amount" =>
      /\ IF MatchingAmountPatterns(raw_text) = {} THEN call.result = None
         ELSE /\ call.result # None
              /\ call.result
                   = NumberOf(CapturedBy(raw_text, FirstOf(MatchingAmountPatterns(raw_text))))
      /\ raw_text = "Rs. 1,234.56" => call.result = Some(123456)
      /\ raw_text = "₹1,299" => call.result = Some(129900)
      /\ raw_text = "INR 219.00" => call.result = Some(21900)
\* the first pattern's capture is returned although a later pattern
\* captures another number
C16_Witness ==
    /\ call.op = "extract_amount"
    /\ call.result = Some(8000)
    /\ \E k \in MatchingAmountPatterns(raw_text) :
          /\ k > FirstOf(MatchingAmountPatterns(raw_text))
          /\ NumberOf(CapturedBy(raw_text, k)) = Some(7500)

\* YYYY-MM-DD of a date
IsoDate(d) ==
    ZeroPad(str(d.year), 4) \o "-" \o ZeroPad(str(d.month), 2) \o "-" \o ZeroPad(str(d.day), 2)

\* C17: a value extract_date returns is the YYYY-MM-DD string of a calendar
\* date that the text writes in one of the supported forms, and the
\* extractor returns "not found" for a text that writes no date.
C17_WrittenDate ==
    call.op = "extract_date" =>
      /\ call.result # None => \E d \in WrittenDates(raw_text) : call.result[1] = IsoDate(d)
      /\ DateTokens(raw_text) = {} => call.result = None

\* the two documented end-to-end inputs
ZomatoMessage == "Rs. 249.00 paid to Zomato on 20-11-2025. UPI Ref: 12345"
OlaMessage == "INR 219 paid to OLA CABS on 20-11-2025."
AmazonMessage == "Payment of ₹1,299 to Amazon was successful on 19/11/2025"
ThreeMessages == ZomatoMessage \o "\n" \o OlaMessage \o "\n" \o AmazonMessage
RECURSIVE TotalOf(_)
TotalOf(rows) == IF rows = <<>> THEN 0 ELSE Head(rows).amount + TotalOf(Tail(rows))
Column(rows, field) == [k \in 1..Len(rows) |-> rows[k][field]]

\* C18: the pipeline turns the Zomato message into exactly one transaction
\* (249.00, Zomato, 2025-11-20, Food), and the Zomato, OLA CABS and Amazon
\* messages joined by newlines into exactly three, in that order, with the
\* amounts 249.00, 219.00 and 1299.00 (1767.00 in all) and the categories
\* Food, Travel and Shopping.
C18_EndToEnd ==
    call.op = "analyze_upi_messages" =>
      /\ raw_text = ZomatoMessage =>
           call.result = << [raw_text |-> ZomatoMessage, amount |-> 24900,
                             merchant |-> "Zomato", category |-> "Food",
                             timestamp |-> Some([year |-> 2025, month |-> 11, day |-> 20])] >>
      /\ raw_text = ThreeMessages =>
           /\ Column(call.result, "raw_text") = <<ZomatoMessage, OlaMessage, AmazonMessage>>
           /\ Column(call.result, "amount") = <<24900, 21900, 129900>>
           /\ Column(call.result, "merchant") = <<"Zomato", "OLA CABS", "Amazon">>
           /\ Column(call.result, "category") = <<"Food", "Travel", "Shopping">>
           /\ TotalOf(call.result) = 176700
C18_Witness ==
    /\ call.op = "analyze_upi_messages"
    /\ raw_text = ThreeMessages
    /\ Len(call.result) = 3
    /\ call.result[3].category = "Shopping"

NetflixMessage == "INR 499.00 paid to Netflix. Next billing date 01-12-2025"

\* C19: the pipeline turns the Netflix message into one transaction with
\* the amount 499.00 and the merchant Netflix, in the category Entertainment.
C19_NetflixEntertainment ==
    (call.op = "analyze_upi_messages" /\ raw_text = NetflixMessage) =>
      /\ Len(call.result) = 1
      /\ call.result[1].amount = 49900
      /\ call.result[1].merchant = "Netflix"
      /\ call.result[1].category = "Entertainment"

(***************************************************************************)
(* The words of a text: its maximal runs of characters that are not        *)
(* whitespace, left to right.                                              *)
(***************************************************************************)
IsBlankAt(s, i) == CharAt(s, i) \in Space
WordStarts(s) == { i \in 1..Len(s) : ~IsBlankAt(s, i) /\ (i = 1 \/ IsBlankAt(s, i - 1)) }
WordEnd(s, i) ==
    CHOOSE j \in i..Len(s) :
       /\ \A k \in i..j : ~IsBlankAt(s, k)
       /\ j = Len(s) \/ IsBlankAt(s, j + 1)
WordsOf(s) ==
    [n \in 1..Cardinality(WordStarts(s)) |->
       LET i == CHOOSE w \in WordStarts(s) : Rank(WordStarts(s), w) = n
       IN  SubSeq(s, i, WordEnd(s, i))]
\* the only whitespace of s is one blank between two words
SingleSpaced(s) ==
    \A i \in 1..Len(s) :
       IsBlankAt(s, i) => /\ CharAt(s, i) = " "
                          /\ 1 < i /\ i < Len(s)
                          /\ ~IsBlankAt(s, i + 1)
\* text is the segment with every run of whitespace written as one blank
\* and none kept at either end
OneSpaced(text, segment) == SingleSpaced(text) /\ WordsOf(text) = WordsOf(segment)

C21_DetailsOrFallback ==
    call.op = "extract_transaction_details" =>
      /\ DOMAIN call.result = {"raw_text", "amount", "merchant", "timestamp"}
      /\ IF Normalized # "" /\ HasValidAmount(raw_text)
         THEN /\ call.result.raw_text = Normalized
              /\ Some(call.result.amount) = extract_amount(Normalized)
              /\ call.result.merchant
                   = (IF NoMerchantFound(Normalized) THEN "Unknown"
                      ELSE extract_merchant(Normalized)[1])
              /\ call.result.timestamp = TimestampOf(extract_date(Normalized, pads_year))
         ELSE /\ call.result.raw_text = raw_text
              /\ call.result.amount = 0
              /\ call.result.merchant = "Unknown"
              /\ call.result.timestamp = None
\* a rejected message with blanks around it comes back as it was given
C21_Witness ==
    /\ call.op = "extract_transaction_details"
    /\ raw_text # Normalized
    /\ ~HasValidAmount(raw_text)
    /\ call.result = [raw_text |-> raw_text, amount |-> 0, merchant |-> "Unknown",
                      timestamp |-> None]

\* the endpoint answered 200, holds one row per parsed transaction, in
\* order, and reports their number and the sum of their amounts
PersistsAndReports(c, parsed) ==
    /\ c.status = 200
    /\ Len(c.persisted) = Len(parsed)
    /\ \A k \in 1..Len(parsed) :
          /\ c.persisted[k].raw_text = parsed[k].raw_text
          /\ c.persisted[k].amount = parsed[k].amount
          /\ c.persisted[k].merchant = parsed[k].merchant
          /\ c.persisted[k].timestamp = parsed[k].timestamp
    /\ c.response.summary.transaction_count = Len(parsed)
    /\ Len(c.response.transactions) = Len(parsed)
    /\ c.response.summary.total_spend = TotalOf(parsed)
    /\ parsed = <<>> => /\ c.response.summary.total_spend = 0
                        /\ c.response.summary.top_category = None
                        /\ c.response.categories = <<>>

\* C22: POST /upi/analyze on a text of n parsed transactions succeeds,
\* persists exactly n rows, one per parsed transaction in order, and
\* reports transaction_count n, n transactions and the sum of the amounts;
\* for n = 0 it persists nothing and reports 0.0, 0, no top category and no
\* categories.
C22_PersistsAndReports ==
    call.op = "analyze_upi_messages"
      => PersistsAndReports(call, parse_messages(raw_text, pads_year))

\* what date pattern k alone yields on the text: the date of its match when
\* that parses, nothing when it does not match or its match fails to parse
DateOutcome(text, k, pad) ==
    DateOf(text, search(DATE_PATTERNS[k].re, TRUE, text), DATE_PATTERNS[k].fmt, pad)
ParsingPatterns(text, pad) ==
    { k \in 1..Len(DATE_PATTERNS) : DateOutcome(text, k, pad) # None }
MatchesPattern(text, k) == search(DATE_PATTERNS[k].re, TRUE, text) # None

\* C23: extract_date returns what the first date pattern, in declared
\* order, that matches and parses yields, whatever matched and failed
\* before it, and "not found" exactly when no pattern matches and parses.
C23_ContinuesAfterFailure ==
    call.op = "extract_date" =>
      IF ParsingPatterns(raw_text, pads_year) = {} THEN call.result = None
      ELSE /\ call.result # None
           /\ call.result
                = DateOutcome(raw_text, FirstOf(ParsingPatterns(raw_text, pads_year)), pads_year)
\* a pattern matched and failed to parse, and a later one gave the date
C23_Witness ==
    /\ call.op = "extract_date"
    /\ call.result = Some("2025-03-01")
    /\ \E k \in 1..Len(DATE_PATTERNS) :
          /\ k < FirstOf(ParsingPatterns(raw_text, pads_year))
          /\ MatchesPattern(raw_text, k)

\* the month-abbreviation forms written with the 2-digit year yy
TwoDigitYearForms(yy) ==
    { "05Nov" \o ZeroPad(str(yy), 2), "05-Nov-" \o ZeroPad(str(yy), 2) }
PivotYear(yy) == IF yy <= 50 THEN 2000 + yy ELSE 1900 + yy

\* C24: for DDMonYY and DD-Mon-YY, extract_date returns the year 2000+YY
\* when YY <= 50 and 1900+YY when YY > 50, for every YY in 00..99.
C24_TwoDigitYearPivot ==
    \A yy \in 0..99 :
        (call.op = "extract_date" /\ raw_text \in TwoDigitYearForms(yy))
            => call.result = Some(str(PivotYear(yy)) \o "-11-05")
\* the first year past the pivot, in the dashed form
C24_Witness ==
    /\ call.op = "extract_date"
    /\ raw_text = "05-Nov-51"
    /\ call.result = Some("1951-11-05")

\* a cleaned capture that is too short or a stop word
StopWords == {"your", "account", "acct", "a/c", "upi"}
Rejected(name) == Len(name) < 3 \/ lower(name) \in StopWords
MerchantMatch(text, k) == search(MERCHANT_PATTERNS[k].re, MERCHANT_PATTERNS[k].ic, text)
CleanedCapture(text, k) == CleanMerchant(group(text, MerchantMatch(text, k)[1], 1))
RejectedPatterns(text) ==
    { k \in 1..Len(MERCHANT_PATTERNS) :
        MerchantMatch(text, k) # None /\ Rejected(CleanedCapture(text, k)) }
AcceptedPatterns(text) ==
    { k \in 1..Len(MERCHANT_PATTERNS) :
        MerchantMatch(text, k) # None /\ ~Rejected(CleanedCapture(text, k)) }

\* C25: extract_merchant never returns a cleaned capture shorter than 3
\* characters or equal to a stop word; it returns the cleaned capture of the
\* first pattern whose capture is not rejected, whatever was rejected before,
\* and nothing only when no pattern has such a capture; and a line with a
\* valid amount is emitted even when captures were rejected in it.
C25_RejectionFallsThrough ==
    /\ call.op = "extract_merchant" =>
         /\ call.result # None => ~Rejected(call.result[1])
         /\ IF AcceptedPatterns(raw_text) = {} THEN call.result = None
            ELSE call.result
                   = Some(CleanedCapture(raw_text, FirstOf(AcceptedPatterns(raw_text))))
    /\ (call.op = "parse_message_line" /\ HasValidAmount(Normalized)
            /\ RejectedPatterns(Normalized) # {})
         => /\ call.result # None
            /\ call.result[1].merchant
                 = IF AcceptedPatterns(Normalized) = {} THEN "Unknown"
                   ELSE CleanedCapture(Normalized, FirstOf(AcceptedPatterns(Normalized)))
\* "paid to UPI on" is captured and rejected, "at Big Bazaar." is returned
C25_Witness ==
    /\ call.op = "extract_merchant"
    /\ raw_text = "Rs. 75 paid to UPI on Monday at Big Bazaar."
    /\ call.result = Some("Big Bazaar")
    /\ \E k \in RejectedPatterns(raw_text) : k < FirstOf(AcceptedPatterns(raw_text))

\* C26: the output of clean_text never contains three or more consecutive
\* newline characters, also when the blank lines of the input hold spaces
\* or tabs.
C26_NoTripleNewline ==
    call.op = "clean_text" => ~Contains(call.result, "\n\n\n")

\* C27: normalize_amount returns the value the amount string writes, the
\* decimal part kept: 'Rs. 1,234.56' and '1234.56' give 1234.56, '1,234'
\* gives 1234.0, and a string that cannot be converted gives 0.0.
C27_AmountValue ==
    call.op = "normalize_amount" =>
      /\ raw_text = "Rs. 1,234.56" => call.result = 123456
      /\ raw_text = "1234.56" => call.result = 123456
      /\ raw_text = "1,234" => call.result = 123400
      /\ raw_text = "abc" => call.result = 0

\* C28: extract_date reads the compact form with a 2-digit and with a
\* 4-digit year: '05Nov25' and '05Nov2025' both give '2025-11-05'.
C28_CompactBothYears ==
    (call.op = "extract_date" /\ raw_text \in {"05Nov25", "05Nov2025"})
        => call.result = Some("2025-11-05")

\* the one date token of a text that writes exactly one
SingleToken(text) == CHOOSE d \in DateTokens(text) : TRUE
\* the year, month and day a returned YYYY-MM-DD string names
ReturnedDate(iso) ==
    [year |-> int(split(iso, "-")[1]), month |-> int(split(iso, "-")[2]),
     day |-> int(split(iso, "-")[3])]

\* C29: a date extract_date returns for a text with a single date token has
\* the year, month and day written in that token; '05-Nov-2025' gives
\* '2025-11-05' or "not found", never a date of another year.
C29_YearAsWritten ==
    call.op = "extract_date" =>
      /\ (Cardinality(DateTokens(raw_text)) = 1 /\ call.result # None)
            => ReturnedDate(call.result[1]) = SingleToken(raw_text)
      /\ raw_text = "05-Nov-2025" => call.result \in {None, Some("2025-11-05")}

\* the places of a label in a list
PlacesOf(list, label) == { k \in 1..Len(list) : list[k] = label }

\* C30: whatever add_category_keywords calls came before, the list that
\* get_all_categories returns has no label twice, holds the label
\* map_category returns, and has 'Others' exactly once, in the last place.
C30_OthersOnceAndLast ==
    call.op = "get_all_categories" =>
      /\ \A k \in 1..Len(call.result) : PlacesOf(call.result, call.result[k]) = {k}
      /\ PlacesOf(call.result, map_category(raw_text, merchant)) # {}
      /\ PlacesOf(call.result, "Others") = {Len(call.result)}
=============================================================================
